---- MODULE Spec2Model ----
(***************************************************************************)
(* A model of acmtool.c (grepwood/libacm): the WAV header builder, the     *)
(* decode drivers libacm_decode_file / libacm_decode_file_to_mem /         *)
(* libacm_show_info, audio playback (open_audio, close_audio, play_file),  *)
(* libacm_strerror and the header patcher libacm_set_channels.             *)
(*                                                                         *)
(* The ACM decoder (acm_open_file, acm_read_loop, acm_close and the        *)
(* accessors) and the C library (fopen, fwrite, fseek, malloc) are the     *)
(* environment: their results are chosen with \E from small sets.          *)
(***************************************************************************)
EXTENDS Integers, Sequences, FiniteSets, TLC

VARIABLES
    \* ---- write_wav_header taken alone (SpecHdr) ----
    hpc,            \* "call" before the call, "ret" after it
    hIn,            \* the arguments: pcm_total, channels, rate, mode
    hOut,           \* what the call delivered: dest (bytes), ret, txt
    \* ---- libacm_set_channels (SpecPatch) ----
    ppc,            \* position inside libacm_set_channels
    pfile,          \* the bytes of the file fn
    pfile0,         \* the bytes of the file when the call began
    pn_chan,        \* the argument n_chan
    phdr,           \* unsigned char hdr[14]
    pf,             \* FILE *f: "null", "open" or "closed"
    pwrote,         \* number of fwrite calls made on f
    \* ---- the decode drivers (Spec) ----
    cf_raw,         \* static int cf_raw
    cf_no_output,   \* static int cf_no_output
    cf_quiet,       \* static int cf_quiet
    stdout_open,    \* FALSE once fclose(stdout) has run
    pc,             \* position of the running function, "idle" outside one
    fun,            \* the function called, "none" before the call
    fn2,            \* the argument fn2: "-" or a file name
    force,          \* the argument cf_force_chans
    acm,            \* the decoder handle and what its accessors report
    fo,             \* FILE *fo: "NULL", "stdout" or "file"
    ofile,          \* what has been written to the file fn2
    stdout_,        \* what has been written to standard output
    buf,            \* the chunk buffer (<< >> while not allocated)
    buf_st,         \* "none", "alloc" or "freed"
    bytes_done,     \* int bytes_done
    total_bytes,    \* int total_bytes
    result,         \* the region libacm_decode_file_to_mem returns
    wavsize,        \* uint32_t wavsize
    g,              \* history of the session (not program state)
    sess,           \* number of driver calls made so far in the process
    \* ---- audio playback (SpecPlay) ----
    dev,            \* static ao_device *dev: 0 is NULL, else a handle
    old_fmt,        \* static ao_sample_format old_fmt
    fmt,            \* ao_sample_format fmt of play_file
    ao,             \* the audio library: open devices, calls, output
    \* ---- libacm_strerror (SpecErr) ----
    ecode,          \* the argument err
    eret,           \* what the call returned and the index it read
    \* ---- the size of the memory region (SpecSize) ----
    mIn,            \* the sample count S, the channel counts, pcm_total
    mOut            \* wavsize and total_bytes as the code computes them

hdrVars   == <<hpc, hIn, hOut>>
patchVars == <<ppc, pfile, pfile0, pn_chan, phdr, pf, pwrote>>
cfVars    == <<cf_raw, cf_no_output>>
argVars   == <<fun, fn2, force>>
drvVars   == <<cfVars, cf_quiet, stdout_open, pc, argVars, acm, fo, ofile,
               stdout_, buf, buf_st, bytes_done, total_bytes, result,
               wavsize, g>>
audioVars == <<dev, old_fmt, fmt, ao>>
errVars   == <<ecode, eret>>
sizeVars  == <<mIn, mOut>>
procVars  == <<sess, audioVars, errVars, sizeVars>>
offVars   == <<hdrVars, patchVars, procVars>>
vars      == <<hdrVars, patchVars, drvVars, procVars>>

----------------------------------------------------------------------------
(* Bounds and input sets *)

\* channel counts of a stream: the ones libacm_set_channels takes for
\* sane (line 463)
Channels == {1, 2}

\* acm_pcm_total values tried by SpecHdr, as 16-bit halves <<hi, lo>> of
\* the 32-bit value: small ones, the spec's example (44100 samples), and
\* values around the 32-bit wrap of datalen and wavlen
HdrTotals ==
    { [hi |-> 0, lo |-> 0], [hi |-> 0, lo |-> 1], [hi |-> 0, lo |-> 44100],
      [hi |-> 16383, lo |-> 65535], [hi |-> 16384, lo |-> 0],
      [hi |-> 32767, lo |-> 65535], [hi |-> 65535, lo |-> 65535] }

\* acm_rate values tried by SpecHdr (a 16-bit field of the ACM header)
HdrRates == {0, 22050, 44100, 65535}

\* numbers of header bytes the stream accepts in mode 1 (44 = all)
HdrAccepts == {0, 1, 43, 44}

----------------------------------------------------------------------------
(* 32-bit unsigned arithmetic and bytes *)

ACM_WORD == 2

\* An unsigned (32 bits) is kept as its two 16-bit halves, [hi, lo]: the
\* model checker's own integers are 32 bits wide and signed.
u32(n) == [hi |-> (n \div 65536) % 65536, lo |-> n % 65536]

\* x * k in 32-bit unsigned arithmetic, for 0 <= k < 32768
u32_mul(x, k) ==
    LET p == x.lo * k
    IN  [hi |-> (x.hi * k + p \div 65536) % 65536, lo |-> p % 65536]

\* x + k in 32-bit unsigned arithmetic, for 0 <= k < 65536
u32_add(x, k) ==
    LET p == x.lo + k
    IN  [hi |-> (x.hi + p \div 65536) % 65536, lo |-> p % 65536]

\* x / 8 (unsigned division)
u32_div8(x) ==
    [hi |-> x.hi \div 8, lo |-> ((x.hi % 8) * 65536 + x.lo) \div 8]

\* C's conversion of an int to unsigned char
U8(x) == x % 256

\* the first n elements of s
Take(s, n) == SubSeq(s, 1, n)

----------------------------------------------------------------------------
(* WAV writing: the put_* macros and write_wav_header *)

put_word_be(val) == << (val.lo \div 256) % 256, val.lo % 256 >>

\* lines 193-196: val & 0xFF, (val >> 8) & 0xFF
put_word(val) == << val.lo % 256, (val.lo \div 256) % 256 >>

put_dword_be(val) ==
    << (val.hi \div 256) % 256, val.hi % 256,
       (val.lo \div 256) % 256, val.lo % 256 >>

\* lines 198-203: val & 0xFF, (val >> 8) & 0xFF, (val >> 16) & 0xFF,
\* (val >> 24) & 0xFF
put_dword(val) ==
    << val.lo % 256, (val.lo \div 256) % 256,
       val.hi % 256, (val.hi \div 256) % 256 >>

\* put_data(p, data, len) with the string literals of write_wav_header
put_data_RIFF == << 82, 73, 70, 70 >>
put_data_WAVEfmt == << 87, 65, 86, 69, 102, 109, 116, 32 >>
put_data_data == << 100, 97, 116, 97 >>

\* the bytes hdr[0 .. p-hdr-1] that write_wav_header builds for a stream
\* with acm_pcm_total = pcm_total (a u32), acm_channels = chans and
\* acm_rate = rate
wav_hdr(pcm_total, chans, rate) ==
    LET datalen          == u32_mul(u32_mul(pcm_total, ACM_WORD), chans)
        code             == u32(1)
        n_channels       == u32(chans)
        srate            == u32(rate)
        avg_bps          == u32_mul(u32_mul(srate, chans), ACM_WORD)
        significant_bits == u32(ACM_WORD * 8)
        block_align      == u32_div8(u32_mul(significant_bits, chans))
        hdrlen           == u32(16)
        wavlen           == u32_add(datalen, 4 + 8 + 16 + 8)
    IN  put_data_RIFF \o put_dword(wavlen) \o put_data_WAVEfmt
        \o put_dword(hdrlen) \o put_word(code) \o put_word(n_channels)
        \o put_dword(srate) \o put_dword(avg_bps) \o put_word(block_align)
        \o put_word(significant_bits) \o put_data_data \o put_dword(datalen)

\* the switch(mode) of write_wav_header: what reaches the destination when
\* the stream accepts `accepted` bytes (mode 1) or memcpy copies (mode 2),
\* and the return value
wav_emit_dest_whole_buffer(hdr, mode, accepted) ==
    IF mode = 1 THEN Take(hdr, accepted)
    ELSE IF mode = 2 THEN hdr \o << 0, 0, 0, 0, 0, 0 >>
    ELSE << >>

wav_emit_dest(hdr, mode, accepted) ==
    IF mode = 1 THEN Take(hdr, accepted)
    ELSE IF mode = 2 THEN hdr
    ELSE << >>

wav_emit_ret(hdr, mode, accepted) ==
    IF mode = 1 /\ accepted # Len(hdr) THEN -1 ELSE 0

----------------------------------------------------------------------------
(* SpecHdr: write_wav_header applied to one set of arguments, in one mode
   and then in the other *)

\* hOut before a call: nothing delivered; prev holds the outcome of the
\* call made before, if there is one
NoOut == [dest |-> << >>, ret |-> 0, txt |-> 0, mode |-> 0, accepted |-> 0,
          prev |-> << >>]

HdrStart ==
    /\ hpc = "call"
    /\ hIn \in [pcm_total : HdrTotals, channels : Channels,
                rate : HdrRates, mode : {1, 2}]
    /\ hOut = NoOut

write_wav_header ==
    /\ hpc = "call"
    /\ \E accepted \in HdrAccepts :
         LET hdr == wav_hdr(hIn.pcm_total, hIn.channels, hIn.rate)
         IN  /\ hIn.mode = 2 => accepted = Len(hdr)
             /\ hOut' = [dest |-> wav_emit_dest(hdr, hIn.mode, accepted),
                         ret  |-> wav_emit_ret(hdr, hIn.mode, accepted),
                         txt  |-> IF hIn.mode = 1 THEN 1 ELSE 0,
                         mode |-> hIn.mode,
                         accepted |-> accepted,
                         prev |-> hOut.prev]
    /\ hpc' = "ret"
    /\ UNCHANGED <<hIn, patchVars, drvVars, procVars>>

\* the same stream is handed to write_wav_header again, in the other mode
\* (mode 1 at line 380, mode 2 at line 304)
HdrOtherMode ==
    /\ hpc = "ret" /\ hOut.prev = << >>
    /\ hIn' = [hIn EXCEPT !.mode = 3 - @]
    /\ hOut' = [NoOut EXCEPT !.prev = << [hOut EXCEPT !.prev = << >>] >>]
    /\ hpc' = "call"
    /\ UNCHANGED <<patchVars, drvVars, procVars>>

----------------------------------------------------------------------------
(* The decode drivers: bounds, inputs and helpers *)

\* capacity of the chunk buffer buf, in bytes: 16384 in the source
\* (buflen, lines 309 and 387), scaled down so that the sinks stay small
buflen == 4

\* largest acm_pcm_total of a stream a driver decodes
MaxSamples == 3

\* largest number of driver calls made one after the other in a process
MaxCalls == 2

\* the byte the decoder delivers at offset k of the PCM stream: a fixed
\* pattern of zero and nonzero bytes
PcmByte(k) == IF k % 4 = 0 THEN 0 ELSE 128 + (k % 4)

\* the next n bytes of the PCM stream from offset k on
PcmChunk(k, n) == [i \in 1..n |-> PcmByte(k + i - 1)]

\* byte values found in freshly allocated memory
JunkVals == {170}

\* acm_rate of the streams a driver decodes
DrvRates == {22050}

\* negative codes acm_open_file and acm_read_loop return
OpenErrs == {-2}
ReadErrs == {-6}

\* values of the argument cf_force_chans (0 = keep the stored count)
ForceVals == {0} \cup Channels

\* an item of a stream or region: a byte and the code that wrote it
\* ("hdr", "pcm", "pad"; "txt" is one printf, "junk" is never written)
Items(src, bytes) == [i \in 1..Len(bytes) |-> [src |-> src, val |-> bytes[i]]]

Fill(n, v) == [i \in 1..n |-> v]

TxtItem == << [src |-> "txt", val |-> 0] >>

\* the items of s that are not printf text
RECURSIVE Payload(_)
Payload(s) ==
    IF s = << >> THEN << >>
    ELSE IF Head(s).src = "txt" THEN Payload(Tail(s))
    ELSE << Head(s) >> \o Payload(Tail(s))

\* the items of s written by src
RECURSIVE Count(_, _)
Count(s, src) ==
    IF s = << >> THEN 0
    ELSE (IF Head(s).src = src THEN 1 ELSE 0) + Count(Tail(s), src)

\* fwrite(.., f) and printf: the new contents of <<ofile, stdout_>>
fwrite_to(f, items) ==
    IF f = "file" THEN << ofile \o items, stdout_ >>
    ELSE IF f = "stdout" /\ stdout_open THEN << ofile, stdout_ \o items >>
    ELSE << ofile, stdout_ >>

printf_to(out, items) == IF stdout_open THEN out \o items ELSE out

\* memcpy(dst, src, n): dst with its first n bytes replaced
memcpy(dst, src, n) ==
    [i \in 1..Len(dst) |-> IF i <= n THEN src[i] ELSE dst[i]]

\* the stream the session writes its output to
Sink == IF fo = "stdout" THEN stdout_ ELSE ofile

NoAcm == [st |-> "none", pcm_total |-> 0, channels |-> 0,
          acm_channels |-> 0, rate |-> 0]

G0 == [pulls |-> 0, decErr |-> FALSE, eos |-> FALSE, ioFailed |-> FALSE,
       padFailed |-> FALSE, writes |-> 0, hdrWrites |-> 0,
       hdrFailed |-> FALSE, openFailed |-> FALSE, streamEnd |-> -1,
       padMax |-> 0, padWrites |-> 0, acmCloses |-> 0, foOpens |-> 0,
       foCloses |-> 0, frees |-> 0, overrun |-> FALSE, taken |-> 0,
       ret |-> "none"]

----------------------------------------------------------------------------
(* show_header, lines 58-73 *)

show_header(out) == IF cf_quiet # 0 THEN out ELSE printf_to(out, TxtItem)

----------------------------------------------------------------------------
(* The call of one of the three drivers *)

Call ==
    /\ pc = "idle" /\ fun = "none"
    /\ \E f \in {"decode_file", "decode_file_to_mem", "show_info"},
          o \in {"-", "out.wav"}, c \in ForceVals :
         /\ fun' = f
         /\ fn2' = (IF f = "decode_file" THEN o ELSE "")
         /\ force' = c
         /\ pc' = (IF f = "decode_file" THEN "df_open"
                   ELSE IF f = "decode_file_to_mem" THEN "tm_open"
                   ELSE "si_open")
    /\ UNCHANGED <<offVars, cfVars, cf_quiet, stdout_open, acm, fo, ofile, stdout_,
                   buf, buf_st, bytes_done, total_bytes, result, wavsize, g>>

\* acm_open_file succeeded: what the accessors of the handle report
Opened(pt, sc, r) ==
    [st |-> "open", pcm_total |-> pt,
     channels |-> (IF force # 0 THEN force ELSE sc),
     acm_channels |-> sc, rate |-> r]

acm_close(a) == [a EXCEPT !.st = "closed"]

----------------------------------------------------------------------------
(* libacm_decode_file, lines 351-434 *)

\* line 358: acm_open_file reported a failure
open_failed(err) == err < 0

\* lines 363, 396, 421, 431: !cf_no_output, the session has a sink
sink_used_always == TRUE

sink_used == cf_no_output = 0

\* line 379: a WAV header is to be written
header_wanted_any == cf_no_output = 0

header_wanted == cf_raw = 0 /\ cf_no_output = 0

\* line 380: write_wav_header reported a failure
header_failed_never(err) == FALSE

header_failed(err) == err < 0

\* lines 392, 415: the loop condition
loop_goes_on(done, total) == done < total

\* lines 405-408: a negative result leaves the streaming loop (break)
on_read_error_retry(loop, after) == loop

on_read_error(loop, after) == after

\* lines 399, 424: the stream took fewer bytes than were handed to it
short_write(res2, res) == res2 # res

\* lines 417-421: the size of the next padding write
pad_chunk(done, total) ==
    IF done + buflen > total THEN total - done ELSE buflen

\* line 411: memset(buf, 0, buflen)
memset0_skipped(b) == b

memset0(b) == [i \in 1..Len(b) |-> 0]

\* line 390: total_bytes
pcm_bytes(a) == a.pcm_total * a.channels * ACM_WORD

\* lines 358-361
DfOpen ==
    /\ pc = "df_open"
    /\ \E err \in {0} \cup OpenErrs :
         IF open_failed(err)
         THEN /\ pc' = "idle"
              /\ g' = [g EXCEPT !.openFailed = err < 0,
                                !.ret = "open_fail"]
              /\ UNCHANGED acm
         ELSE /\ \E pt \in 0..MaxSamples, sc \in Channels,
                    r \in DrvRates : acm' = Opened(pt, sc, r)
              /\ pc' = "df_sink"
              /\ g' = [g EXCEPT !.openFailed = err < 0]
    /\ UNCHANGED <<offVars, cfVars, cf_quiet, stdout_open, argVars, fo, ofile,
                   stdout_, buf, buf_st, bytes_done, total_bytes, result,
                   wavsize>>

\* lines 363-375: the choice of the sink
DfSink ==
    /\ pc = "df_sink"
    /\ \/ /\ ~sink_used
          /\ pc' = "df_show"
          /\ UNCHANGED <<cf_quiet, fo, ofile, acm, g>>
       \/ /\ sink_used /\ fn2 = "-"
          /\ fo' = "stdout"
          /\ cf_quiet' = 1
          /\ pc' = "df_show"
          /\ UNCHANGED <<ofile, acm, g>>
       \/ /\ sink_used /\ fn2 # "-"
          /\ \E ok \in BOOLEAN :
               IF ok
               THEN /\ fo' = "file"
                    /\ ofile' = << >>
                    /\ g' = [g EXCEPT !.foOpens = @ + 1]
                    /\ pc' = "df_show"
                    /\ UNCHANGED acm
               ELSE /\ fo' = "NULL"
                    /\ acm' = acm_close(acm)
                    /\ g' = [g EXCEPT !.acmCloses = @ + 1,
                                      !.ret = "fopen_fail"]
                    /\ pc' = "idle"
                    /\ UNCHANGED ofile
          /\ UNCHANGED cf_quiet
    /\ UNCHANGED <<offVars, cfVars, stdout_open, argVars, stdout_, buf, buf_st,
                   bytes_done, total_bytes, result, wavsize>>

\* line 377
DfShow ==
    /\ pc = "df_show"
    /\ stdout_' = show_header(stdout_)
    /\ pc' = "df_hdr"
    /\ UNCHANGED <<offVars, cfVars, cf_quiet, stdout_open, argVars, acm, fo, ofile,
                   buf, buf_st, bytes_done, total_bytes, result, wavsize, g>>

\* lines 379-386, with write_wav_header(fo, acm, 1) of lines 210-255:
\* the fwrite of the header, the printf of line 244, the return value
DfHdr ==
    /\ pc = "df_hdr"
    /\ IF header_wanted
       THEN \E accepted \in HdrAccepts :
              LET hdr == wav_hdr(u32(acm.pcm_total), acm.channels, acm.rate)
                  w   == fwrite_to(fo, Items("hdr",
                                   wav_emit_dest(hdr, 1, accepted)))
                  err == wav_emit_ret(hdr, 1, accepted)
              IN  /\ ofile' = w[1]
                  /\ stdout_' = printf_to(w[2], TxtItem)
                  /\ IF header_failed(err)
                     THEN /\ fo' = (IF fo = "file" THEN "closed" ELSE fo)
                          /\ stdout_open' =
                               (IF fo = "stdout" THEN FALSE ELSE stdout_open)
                          /\ acm' = acm_close(acm)
                          /\ g' = [g EXCEPT
                                     !.writes = @ + 1, !.hdrWrites = @ + 1,
                                     !.hdrFailed = accepted # Len(hdr),
                                     !.acmCloses = @ + 1,
                                     !.foCloses =
                                        IF fo = "file" THEN @ + 1 ELSE @,
                                     !.ret = "hdr_fail"]
                          /\ pc' = "idle"
                     ELSE /\ g' = [g EXCEPT
                                     !.writes = @ + 1, !.hdrWrites = @ + 1,
                                     !.hdrFailed = accepted # Len(hdr)]
                          /\ pc' = "df_alloc"
                          /\ UNCHANGED <<fo, stdout_open, acm>>
       ELSE /\ pc' = "df_alloc"
            /\ UNCHANGED <<fo, stdout_open, acm, ofile, stdout_, g>>
    /\ UNCHANGED <<offVars, cfVars, cf_quiet, argVars, buf, buf_st, bytes_done,
                   total_bytes, result, wavsize>>

\* lines 387-390: the chunk buffer and total_bytes
DfAlloc ==
    /\ pc = "df_alloc"
    /\ \E j \in JunkVals : buf' = Fill(buflen, j)
    /\ buf_st' = "alloc"
    /\ total_bytes' = pcm_bytes(acm)
    /\ pc' = "df_stream"
    /\ UNCHANGED <<offVars, cfVars, cf_quiet, stdout_open, argVars, acm, fo, ofile,
                   stdout_, bytes_done, result, wavsize, g>>

\* lines 392-409: the loop test and one iteration of the streaming loop
DfStream ==
    /\ pc = "df_stream"
    /\ IF loop_goes_on(bytes_done, total_bytes)
       THEN \/ \* res == 0: end of stream
               /\ g' = [g EXCEPT !.pulls = @ + 1, !.eos = TRUE]
               /\ pc' = "df_memset"
               /\ UNCHANGED <<buf, ofile, stdout_, bytes_done>>
            \/ \* res < 0: the decoder reports an error
               /\ \E res \in ReadErrs :
                    g' = [g EXCEPT !.pulls = @ + 1, !.decErr = TRUE]
               /\ pc' = on_read_error("df_stream", "df_memset")
               /\ UNCHANGED <<buf, ofile, stdout_, bytes_done>>
            \/ \* res > 0: a chunk of res bytes
               \E words \in 1..(buflen \div 2) :
                 LET res == words * ACM_WORD
                     chunk == memcpy(buf, PcmChunk(bytes_done, res), res)
                 IN  /\ buf' = chunk
                     /\ IF sink_used
                        THEN \E res2 \in 0..res :
                               LET w == fwrite_to(fo,
                                          Items("pcm", Take(chunk, res2)))
                               IN  /\ ofile' = w[1]
                                   /\ stdout_' = w[2]
                                   /\ IF short_write(res2, res)
                                      THEN /\ g' = [g EXCEPT
                                                     !.pulls = @ + 1,
                                                     !.writes = @ + 1,
                                                     !.taken = @ + res2,
                                                     !.ioFailed = res2 < res]
                                           /\ pc' = "df_memset"
                                           /\ UNCHANGED bytes_done
                                      ELSE /\ g' = [g EXCEPT
                                                     !.pulls = @ + 1,
                                                     !.writes = @ + 1,
                                                     !.taken = @ + res2,
                                                     !.ioFailed =
                                                        @ \/ res2 < res]
                                           /\ bytes_done' = bytes_done + res
                                           /\ pc' = "df_stream"
                        ELSE /\ g' = [g EXCEPT !.pulls = @ + 1,
                                                !.taken = @ + res]
                             /\ bytes_done' = bytes_done + res
                             /\ pc' = "df_stream"
                             /\ UNCHANGED <<ofile, stdout_>>
       ELSE /\ pc' = "df_memset"
            /\ UNCHANGED <<buf, ofile, stdout_, bytes_done, g>>
    /\ UNCHANGED <<offVars, cfVars, cf_quiet, stdout_open, argVars, acm, fo, buf_st,
                   total_bytes, result, wavsize>>

\* lines 411-414: the buffer is zeroed (and the filler message printed)
DfMemset ==
    /\ pc = "df_memset"
    /\ buf' = memset0(buf)
    /\ g' = [g EXCEPT !.streamEnd = bytes_done]
    /\ pc' = "df_pad"
    /\ UNCHANGED <<offVars, cfVars, cf_quiet, stdout_open, argVars, acm, fo, ofile,
                   stdout_, buf_st, bytes_done, total_bytes, result, wavsize>>

\* lines 415-428: the loop test and one iteration of the padding loop
DfPad ==
    /\ pc = "df_pad"
    /\ IF loop_goes_on(bytes_done, total_bytes)
       THEN LET bs == pad_chunk(bytes_done, total_bytes)
            IN  IF sink_used
                THEN \E res2 \in 0..bs :
                       LET w == fwrite_to(fo, Items("pad", Take(buf, res2)))
                       IN  /\ ofile' = w[1]
                           /\ stdout_' = w[2]
                           /\ IF short_write(res2, bs)
                              THEN /\ g' = [g EXCEPT
                                        !.writes = @ + 1,
                                        !.padWrites = @ + 1,
                                        !.taken = @ + res2,
                                        !.padMax = IF bs > @ THEN bs ELSE @,
                                        !.ioFailed = res2 < bs,
                                        !.padFailed = res2 < bs]
                                   /\ pc' = "df_close"
                                   /\ UNCHANGED bytes_done
                              ELSE /\ g' = [g EXCEPT
                                        !.writes = @ + 1,
                                        !.padWrites = @ + 1,
                                        !.taken = @ + res2,
                                        !.padMax = IF bs > @ THEN bs ELSE @,
                                        !.ioFailed = @ \/ res2 < bs,
                                        !.padFailed = @ \/ res2 < bs]
                                   /\ bytes_done' = bytes_done + bs
                                   /\ pc' = "df_pad"
                ELSE /\ bytes_done' = bytes_done + bs
                     /\ g' = [g EXCEPT !.taken = @ + bs]
                     /\ pc' = "df_pad"
                     /\ UNCHANGED <<ofile, stdout_>>
       ELSE /\ pc' = "df_close"
            /\ UNCHANGED <<ofile, stdout_, bytes_done, g>>
    /\ UNCHANGED <<offVars, cfVars, cf_quiet, stdout_open, argVars, acm, fo, buf,
                   buf_st, total_bytes, result, wavsize>>

\* lines 430-434: acm_close, fclose(fo) unless no output, free(buf)
DfClose ==
    /\ pc = "df_close"
    /\ acm' = acm_close(acm)
    /\ fo' = (IF sink_used /\ fo = "file" THEN "closed" ELSE fo)
    /\ stdout_open' =
         (IF sink_used /\ fo = "stdout" THEN FALSE ELSE stdout_open)
    /\ buf_st' = "freed"
    /\ g' = [g EXCEPT !.acmCloses = @ + 1,
                      !.foCloses =
                         IF sink_used /\ fo = "file" THEN @ + 1 ELSE @,
                      !.frees = @ + 1,
                      !.ret = "normal"]
    /\ pc' = "idle"
    /\ UNCHANGED <<offVars, cfVars, cf_quiet, argVars, ofile, stdout_, buf,
                   bytes_done, total_bytes, result, wavsize>>

\* libacm_decode_file called again in the same process: the statics keep
\* their values, and so does standard output once it is closed; ofile and
\* stdout_ are what the session at hand has written
SessCall ==
    /\ pc = "idle" /\ sess < MaxCalls
    /\ sess' = sess + 1
    /\ fun' = "decode_file"
    /\ fn2' \in {"-", "out.wav"}
    /\ force' \in ForceVals
    /\ pc' = "df_open"
    /\ acm' = NoAcm /\ fo' = "NULL" /\ ofile' = << >> /\ stdout_' = << >>
    /\ buf' = << >> /\ buf_st' = "none"
    /\ bytes_done' = 0 /\ total_bytes' = 0 /\ g' = G0
    /\ UNCHANGED <<audioVars, errVars, sizeVars, hdrVars, patchVars, cfVars,
                   cf_quiet, stdout_open, result, wavsize>>

----------------------------------------------------------------------------
(* get_sample_count, lines 257-279 *)

\* what the C library does for it: "ok", or the call that fails
CountOutcomes == {"ok", "nofile", "noseek", "noread"}

get_sample_count(outcome) ==
    IF outcome = "nofile" THEN 1
    ELSE IF outcome = "noseek" THEN 2
    ELSE IF outcome = "noread" THEN 4
    ELSE 0

----------------------------------------------------------------------------
(* libacm_decode_file_to_mem, lines 281-349 *)

\* lines 298-302: the size of the region, in 32-bit unsigned arithmetic:
\* S << c, then + 44, with c the forced channel count if there is one and
\* the stored one otherwise
mem_size(S, forced, stored) ==
    u32_add(u32_mul(S, 2 ^ (IF forced # 0 THEN forced ELSE stored)), 44)

\* a size_t as a number (below 2^31)
size_of(x) == x.hi * 65536 + x.lo

\* lines 319, 341: where in the region a chunk is copied, given the
\* number of bytes already copied
copy_offset(done) == 0

\* memcpy(dst + off, src, n)
memcpy_at(dst, off, src, n) ==
    [i \in 1..Len(dst) |->
        IF i > off /\ i <= off + n THEN src[i - off] ELSE dst[i]]

\* lines 291-294
TmOpen ==
    /\ pc = "tm_open"
    /\ \E err \in {0} \cup OpenErrs :
         IF open_failed(err)
         THEN /\ pc' = "idle"
              /\ g' = [g EXCEPT !.openFailed = err < 0,
                                !.ret = "open_fail"]
              /\ UNCHANGED acm
         ELSE /\ \E pt \in 0..MaxSamples, sc \in Channels,
                    r \in DrvRates : acm' = Opened(pt, sc, r)
              /\ pc' = "tm_count"
              /\ g' = [g EXCEPT !.openFailed = err < 0]
    /\ UNCHANGED <<offVars, cfVars, cf_quiet, stdout_open, argVars, fo, ofile,
                   stdout_, buf, buf_st, bytes_done, total_bytes, result,
                   wavsize>>

\* lines 295-297, with get_sample_count; fclose(NULL) on the "nofile"
\* path is undefined: the process stops there or the call returns 1
TmCount ==
    /\ pc = "tm_count"
    /\ \E outcome \in CountOutcomes :
         IF get_sample_count(outcome) # 0
         THEN /\ pc' \in (IF outcome = "nofile" THEN {"idle", "crashed"}
                          ELSE {"idle"})
              /\ g' = [g EXCEPT !.ret = "count_fail"]
              /\ UNCHANGED wavsize
         ELSE /\ \E S \in 0..MaxSamples : wavsize' = u32(S)
              /\ pc' = "tm_alloc"
              /\ UNCHANGED g
    /\ UNCHANGED <<offVars, cfVars, cf_quiet, stdout_open, argVars, acm, fo, ofile,
                   stdout_, buf, buf_st, bytes_done, total_bytes, result>>

\* lines 298-303: the region is sized and allocated
TmAlloc ==
    /\ pc = "tm_alloc"
    /\ wavsize' = mem_size(wavsize, force, acm.acm_channels)
    /\ \E j \in JunkVals : result' = Items("junk", Fill(size_of(wavsize'), j))
    /\ pc' = "tm_hdr"
    /\ UNCHANGED <<offVars, cfVars, cf_quiet, stdout_open, argVars, acm, fo, ofile,
                   stdout_, buf, buf_st, bytes_done, total_bytes, g>>

\* lines 304-312, with write_wav_header(result, acm, 2): memcpy returns
\* its destination, so the call returns 0
TmHdr ==
    /\ pc = "tm_hdr"
    /\ LET hdr == wav_hdr(u32(acm.pcm_total), acm.channels, acm.rate)
           err == wav_emit_ret(hdr, 2, Len(hdr))
       IN  /\ result' = memcpy_at(result, 0,
                          Items("hdr", wav_emit_dest(hdr, 2, Len(hdr))),
                          Len(hdr))
           /\ IF header_failed(err)
              THEN /\ acm' = acm_close(acm)
                   /\ g' = [g EXCEPT !.hdrWrites = @ + 1,
                                     !.hdrFailed = TRUE,
                                     !.acmCloses = @ + 1,
                                     !.overrun = @ \/ Len(hdr) > Len(result),
                                     !.ret = "hdr_fail"]
                   /\ pc' = "idle"
                   /\ UNCHANGED <<buf, buf_st, total_bytes>>
              ELSE /\ \E j \in JunkVals : buf' = Fill(buflen, j)
                   /\ buf_st' = "alloc"
                   /\ total_bytes' = pcm_bytes(acm)
                   /\ g' = [g EXCEPT !.hdrWrites = @ + 1,
                                     !.overrun = @ \/ Len(hdr) > Len(result)]
                   /\ pc' = "tm_stream"
                   /\ UNCHANGED acm
    /\ UNCHANGED <<offVars, cfVars, cf_quiet, stdout_open, argVars, fo, ofile,
                   stdout_, bytes_done, wavsize>>

\* lines 314-329: the loop test and one iteration of the streaming loop
TmStream ==
    /\ pc = "tm_stream"
    /\ IF loop_goes_on(bytes_done, total_bytes)
       THEN \/ \* res == 0
               /\ g' = [g EXCEPT !.pulls = @ + 1, !.eos = TRUE]
               /\ pc' = "tm_memset"
               /\ UNCHANGED <<buf, result, bytes_done>>
            \/ \* res < 0
               /\ \E res \in ReadErrs :
                    g' = [g EXCEPT !.pulls = @ + 1, !.decErr = TRUE]
               /\ pc' = on_read_error("tm_stream", "tm_memset")
               /\ UNCHANGED <<buf, result, bytes_done>>
            \/ \* res > 0: memcpy(result, buf, res) returns result
               \E words \in 1..(buflen \div 2) :
                 LET res   == words * ACM_WORD
                     chunk == memcpy(buf, PcmChunk(bytes_done, res), res)
                     off   == copy_offset(bytes_done)
                 IN  /\ buf' = chunk
                     /\ result' = memcpy_at(result, off,
                                            Items("pcm", chunk), res)
                     /\ g' = [g EXCEPT
                                !.pulls = @ + 1, !.writes = @ + 1,
                                !.taken = @ + res,
                                !.overrun = @ \/ off + res > Len(result)]
                     /\ bytes_done' = bytes_done + res
                     /\ pc' = "tm_stream"
       ELSE /\ pc' = "tm_memset"
            /\ UNCHANGED <<buf, result, bytes_done, g>>
    /\ UNCHANGED <<offVars, cfVars, cf_quiet, stdout_open, argVars, acm, fo, ofile,
                   stdout_, buf_st, total_bytes, wavsize>>

\* lines 331-334
TmMemset ==
    /\ pc = "tm_memset"
    /\ buf' = memset0(buf)
    /\ g' = [g EXCEPT !.streamEnd = bytes_done]
    /\ pc' = "tm_pad"
    /\ UNCHANGED <<offVars, cfVars, cf_quiet, stdout_open, argVars, acm, fo, ofile,
                   stdout_, buf_st, bytes_done, total_bytes, result, wavsize>>

\* lines 335-345: the loop test and one iteration of the padding loop
TmPad ==
    /\ pc = "tm_pad"
    /\ IF loop_goes_on(bytes_done, total_bytes)
       THEN LET bs  == pad_chunk(bytes_done, total_bytes)
                off == copy_offset(bytes_done)
            IN  /\ result' = memcpy_at(result, off, Items("pad", buf), bs)
                /\ g' = [g EXCEPT
                           !.writes = @ + 1, !.padWrites = @ + 1,
                           !.taken = @ + bs,
                           !.padMax = IF bs > @ THEN bs ELSE @,
                           !.overrun = @ \/ off + bs > Len(result)]
                /\ bytes_done' = bytes_done + bs
                /\ pc' = "tm_pad"
       ELSE /\ pc' = "tm_close"
            /\ UNCHANGED <<result, bytes_done, g>>
    /\ UNCHANGED <<offVars, cfVars, cf_quiet, stdout_open, argVars, acm, fo, ofile,
                   stdout_, buf, buf_st, total_bytes, wavsize>>

\* lines 347-348: acm_close and the return of result; buf is not freed
TmClose ==
    /\ pc = "tm_close"
    /\ acm' = acm_close(acm)
    /\ g' = [g EXCEPT !.acmCloses = @ + 1, !.ret = "normal"]
    /\ pc' = "idle"
    /\ UNCHANGED <<offVars, cfVars, cf_quiet, stdout_open, argVars, fo, ofile,
                   stdout_, buf, buf_st, bytes_done, total_bytes, result,
                   wavsize>>

----------------------------------------------------------------------------
(* libacm_show_info, lines 486-499 *)

ShowInfo ==
    /\ pc = "si_open"
    /\ \E err \in {0} \cup OpenErrs :
         IF open_failed(err)
         THEN /\ stdout_' = printf_to(stdout_, TxtItem)
              /\ g' = [g EXCEPT !.openFailed = err < 0,
                                !.ret = "open_fail"]
              /\ UNCHANGED acm
         ELSE /\ \E pt \in 0..MaxSamples, sc \in Channels,
                    r \in DrvRates : acm' = acm_close(Opened(pt, sc, r))
              /\ stdout_' = show_header(stdout_)
              /\ g' = [g EXCEPT !.openFailed = err < 0,
                                !.acmCloses = @ + 1, !.ret = "normal"]
    /\ pc' = "idle"
    /\ UNCHANGED <<offVars, cfVars, cf_quiet, stdout_open, argVars, fo, ofile, buf,
                   buf_st, bytes_done, total_bytes, result, wavsize>>

----------------------------------------------------------------------------
(* Audio playback with libao, lines 75-175 (compiled under HAVE_AO) *)

\* static ao_sample_format old_fmt (line 84) is zero-initialised
ZeroFmt == [bits |-> 0, rate |-> 0, channels |-> 0, byte_format |-> "0",
            matrix |-> "NULL"]

\* fmt.matrix is never assigned by play_file (lines 129-132): the field
\* holds whatever the stack held
MatrixVals == {"NULL", "junk"}

\* the audio library: the handles of the devices that are open, the format
\* each was opened with, the library calls made by the last open_audio or
\* close_audio, and the bytes played in the session
Ao0 == [live |-> {}, fmtOf |-> [h \in {} |-> ZeroFmt], log |-> << >>,
        out |-> << >>]

\* a handle ao_open_live can return: one that is not in use
FreshDev(a) ==
    CHOOSE h \in 1..(Cardinality(a.live) + 1) : h \notin a.live

ao_close(a, h) ==
    [a EXCEPT !.live = @ \ {h},
              !.fmtOf = [x \in (a.live \ {h}) |-> a.fmtOf[x]],
              !.log = Append(@, << "ao_close", h >>)]

\* ao_open_live returned h (0 is NULL)
ao_open_live(a, h, f) ==
    IF h = 0 THEN [a EXCEPT !.log = Append(@, << "ao_open_live", 0 >>)]
    ELSE [a EXCEPT !.live = @ \cup {h},
                   !.fmtOf = [x \in (a.live \cup {h}) |->
                                 IF x = h THEN f ELSE a.fmtOf[x]],
                   !.log = Append(@, << "ao_open_live", h >>)]

\* line 88: memcmp(fmt, &old_fmt, sizeof(old_fmt)) != 0
fmt_differs_rate_only(f, old) == f.rate # old.rate

fmt_differs(f, old) == f # old

\* open_audio(fmt), lines 86-105, when ao_default_driver_id returns id and
\* ao_open_live would return h: the new dev, old_fmt and library state,
\* and whether exit(1) was called
open_audio(f, id, h) ==
    LET closing == dev # 0 /\ fmt_differs(f, old_fmt)
        d1      == IF closing THEN 0 ELSE dev
        a0      == [ao EXCEPT !.log = << >>]
        a1      == IF closing THEN ao_close(a0, dev) ELSE a0
    IN  IF d1 = 0
        THEN IF id < 0
             THEN [dev |-> d1, old_fmt |-> old_fmt, ao |-> a1,
                   exit |-> TRUE]
             ELSE [dev |-> h, old_fmt |-> f, ao |-> ao_open_live(a1, h, f),
                   exit |-> h = 0]
        ELSE [dev |-> d1, old_fmt |-> old_fmt, ao |-> a1, exit |-> FALSE]

\* close_audio, lines 107-112, called between two sessions
close_audio ==
    /\ pc = "idle"
    /\ ao' = (IF dev # 0 THEN ao_close([ao EXCEPT !.log = << >>], dev)
              ELSE [ao EXCEPT !.log = << >>])
    /\ dev' = 0
    /\ UNCHANGED <<old_fmt, fmt, sess, errVars, sizeVars, hdrVars,
                   patchVars, drvVars>>

\* what ao_play(dev, buf, n) can answer: libao returns 0 on failure and a
\* nonzero value on success; took is the number of bytes the device played
AoPlay(n) ==
    { [took |-> 0, ret |-> 0], [took |-> n, ret |-> 1],
      [took |-> n, ret |-> n] }

\* the call of play_file; cf_force_chans is the static of line 33
PlayCall ==
    /\ pc = "idle" /\ sess < MaxCalls
    /\ sess' = sess + 1
    /\ fun' = "play_file" /\ fn2' = "" /\ force' = 0
    /\ pc' = "pf_open"
    /\ acm' = NoAcm /\ buf' = << >> /\ buf_st' = "none"
    /\ bytes_done' = 0 /\ total_bytes' = 0 /\ g' = G0
    /\ stdout_' = << >>
    /\ ao' = [ao EXCEPT !.log = << >>, !.out = << >>]
    /\ UNCHANGED <<dev, old_fmt, fmt, errVars, sizeVars, hdrVars, patchVars,
                   cfVars, cf_quiet, stdout_open, fo, ofile, result,
                   wavsize>>

\* lines 123-127
PfOpen ==
    /\ pc = "pf_open"
    /\ \E err \in {0} \cup OpenErrs :
         IF open_failed(err)
         THEN /\ pc' = "idle"
              /\ g' = [g EXCEPT !.openFailed = err < 0,
                                !.ret = "open_fail"]
              /\ UNCHANGED acm
         ELSE /\ \E pt \in 0..MaxSamples, sc \in Channels,
                    r \in DrvRates : acm' = Opened(pt, sc, r)
              /\ pc' = "pf_show"
              /\ g' = [g EXCEPT !.openFailed = err < 0]
    /\ UNCHANGED <<offVars, cfVars, cf_quiet, stdout_open, argVars, fo,
                   ofile, stdout_, buf, buf_st, bytes_done, total_bytes,
                   result, wavsize>>

\* lines 128-132: show_header and the fields of fmt
PfShow ==
    /\ pc = "pf_show"
    /\ stdout_' = show_header(stdout_)
    /\ \E m \in MatrixVals :
         fmt' = [bits |-> 16, rate |-> acm.rate, channels |-> acm.channels,
                 byte_format |-> "AO_FMT_LITTLE", matrix |-> m]
    /\ pc' = "pf_dev"
    /\ UNCHANGED <<sess, dev, old_fmt, ao, errVars, sizeVars, hdrVars,
                   patchVars, cfVars, cf_quiet, stdout_open, argVars, acm,
                   fo, ofile, buf, buf_st, bytes_done, total_bytes, result,
                   wavsize, g>>

\* line 134: dev = open_audio(&fmt)
PfDev ==
    /\ pc = "pf_dev"
    /\ \E id \in {-1, 0}, h \in {0, FreshDev(ao)} :
         LET r == open_audio(fmt, id, h)
         IN  /\ dev' = r.dev
             /\ old_fmt' = r.old_fmt
             /\ ao' = r.ao
             /\ pc' = (IF r.exit THEN "exited" ELSE "pf_alloc")
    /\ UNCHANGED <<sess, fmt, errVars, sizeVars, hdrVars, patchVars,
                   cfVars, cf_quiet, stdout_open, argVars, acm, fo, ofile,
                   stdout_, buf, buf_st, bytes_done, total_bytes, result,
                   wavsize, g>>

\* lines 136-139: the chunk buffer (4*1024 bytes in the source, scaled as
\* buflen is) and total_bytes
PfAlloc ==
    /\ pc = "pf_alloc"
    /\ \E j \in JunkVals : buf' = Fill(buflen, j)
    /\ buf_st' = "alloc"
    /\ total_bytes' = pcm_bytes(acm)
    /\ pc' = "pf_stream"
    /\ UNCHANGED <<offVars, cfVars, cf_quiet, stdout_open, argVars, acm, fo,
                   ofile, stdout_, bytes_done, result, wavsize, g>>

\* lines 140-152: the loop test and one iteration of the streaming loop;
\* bytes_done is advanced at line 146, ao_play is called at line 147 and
\* its result is not looked at
PfStream ==
    /\ pc = "pf_stream"
    /\ IF loop_goes_on(bytes_done, total_bytes)
       THEN \/ \* res == 0
               /\ g' = [g EXCEPT !.pulls = @ + 1, !.eos = TRUE]
               /\ pc' = "pf_memset"
               /\ UNCHANGED <<buf, ao, bytes_done>>
            \/ \* res < 0
               /\ \E res \in ReadErrs :
                    g' = [g EXCEPT !.pulls = @ + 1, !.decErr = TRUE]
               /\ pc' = on_read_error("pf_stream", "pf_memset")
               /\ UNCHANGED <<buf, ao, bytes_done>>
            \/ \* res > 0
               \E words \in 1..(buflen \div ACM_WORD) :
                 LET res   == words * ACM_WORD
                     chunk == memcpy(buf, PcmChunk(bytes_done, res), res)
                 IN  \E p \in AoPlay(res) :
                       /\ buf' = chunk
                       /\ bytes_done' = bytes_done + res
                       /\ ao' = [ao EXCEPT !.out =
                                   @ \o Items("pcm", Take(chunk, p.took))]
                       /\ g' = [g EXCEPT !.pulls = @ + 1,
                                         !.writes = @ + 1,
                                         !.taken = @ + p.took,
                                         !.ioFailed = @ \/ p.took < res]
                       /\ pc' = "pf_stream"
       ELSE /\ pc' = "pf_memset"
            /\ UNCHANGED <<buf, ao, bytes_done, g>>
    /\ UNCHANGED <<sess, dev, old_fmt, fmt, errVars, sizeVars, hdrVars,
                   patchVars, cfVars, cf_quiet, stdout_open, argVars, acm,
                   fo, ofile, stdout_, buf_st, total_bytes, result, wavsize>>

\* lines 154-157
PfMemset ==
    /\ pc = "pf_memset"
    /\ buf' = memset0(buf)
    /\ g' = [g EXCEPT !.streamEnd = bytes_done]
    /\ pc' = "pf_pad"
    /\ UNCHANGED <<offVars, cfVars, cf_quiet, stdout_open, argVars, acm, fo,
                   ofile, stdout_, buf_st, bytes_done, total_bytes, result,
                   wavsize>>

\* lines 158-169: the loop test and one iteration of the padding loop
PfPad ==
    /\ pc = "pf_pad"
    /\ IF loop_goes_on(bytes_done, total_bytes)
       THEN LET bs == pad_chunk(bytes_done, total_bytes)
            IN  \E p \in AoPlay(bs) :
                  /\ ao' = [ao EXCEPT !.out =
                              @ \o Items("pad", Take(buf, p.took))]
                  /\ g' = [g EXCEPT
                             !.writes = @ + 1, !.padWrites = @ + 1,
                             !.taken = @ + p.took,
                             !.padMax = IF bs > @ THEN bs ELSE @,
                             !.ioFailed = @ \/ p.took < bs,
                             !.padFailed = @ \/ p.took < bs]
                  /\ IF short_write(p.ret, bs)
                     THEN pc' = "pf_close" /\ UNCHANGED bytes_done
                     ELSE pc' = "pf_pad"
                          /\ bytes_done' = bytes_done + p.ret
       ELSE /\ pc' = "pf_close"
            /\ UNCHANGED <<ao, bytes_done, g>>
    /\ UNCHANGED <<sess, dev, old_fmt, fmt, errVars, sizeVars, hdrVars,
                   patchVars, cfVars, cf_quiet, stdout_open, argVars, acm,
                   fo, ofile, stdout_, buf, buf_st, total_bytes, result,
                   wavsize>>

\* lines 171-172: acm_close and free(buf)
PfClose ==
    /\ pc = "pf_close"
    /\ acm' = acm_close(acm)
    /\ buf_st' = "freed"
    /\ g' = [g EXCEPT !.acmCloses = @ + 1, !.frees = @ + 1,
                      !.ret = "normal"]
    /\ pc' = "idle"
    /\ UNCHANGED <<offVars, cfVars, cf_quiet, stdout_open, argVars, fo,
                   ofile, stdout_, buf, bytes_done, total_bytes, result,
                   wavsize>>

----------------------------------------------------------------------------
(* libacm_strerror, lines 38-56 *)

\* error codes tried: -MaxErr .. MaxErr and the ends of int
MaxErr == 60

IntMin == -2147483647 - 1
IntMax == 2147483647

ErrCodes == (-MaxErr..MaxErr) \cup {IntMin, IntMin + 1, IntMax - 1, IntMax}

\* lines 39-49
errlist ==
    << "No error", "ACM error", "Cannot open file", "Not an ACM file",
       "Read error", "Bad format", "Corrupt file", "Unexcpected EOF",
       "Stream not seekable" >>

\* line 52: sizeof(_errlist) / sizeof(char *)
nerr == Len(errlist)

\* _errlist[i]; a read outside the array yields whatever lies there
read_errlist(i) ==
    IF i >= 0 /\ i < Len(errlist) THEN errlist[i + 1] ELSE "garbage"

\* -err overflows for INT_MIN, which is undefined: a build either negates
\* in the machine (the result wraps to INT_MIN) or, entitled to assume
\* that nothing overflows, tests err itself
Builds == {"negate", "fold"}

\* line 53: (-err) < 0 || (-err) >= nerr
out_of_range_off_by_one(err, build) ==
    IF build = "negate"
    THEN LET n == IF err = IntMin THEN IntMin ELSE 0 - err
         IN  n < 0 \/ n > nerr
    ELSE err > 0 \/ err < 0 - nerr

out_of_range(err, build) ==
    IF build = "negate"
    THEN LET n == IF err = IntMin THEN IntMin ELSE 0 - err
         IN  n < 0 \/ n >= nerr
    ELSE err > 0 \/ err <= 0 - nerr

\* before the call: nothing returned, no element of _errlist read
NoRet == [str |-> "", idx |-> -1]

\* lines 50-56: the string returned and the index read in _errlist
\* (-1: none)
libacm_strerror ==
    /\ eret = NoRet
    /\ \E build \in Builds :
         eret' = (IF out_of_range(ecode, build)
                  THEN [str |-> "Unknown error", idx |-> -1]
                  ELSE [str |-> read_errlist(0 - ecode),
                        idx |-> 0 - ecode])
    /\ UNCHANGED <<ecode, sess, audioVars, sizeVars, hdrVars, patchVars,
                   drvVars>>

----------------------------------------------------------------------------
(* The size of the region of libacm_decode_file_to_mem, lines 295-302 *)

\* before the computation, and outside SpecSize
NoSize == [st |-> "off"]

\* sample counts found at offset 4 of the file, as 16-bit halves: small
\* ones and values around the points where S << 1, S << 2 and the + 44
\* pass 2^32
SizeCounts ==
    { [hi |-> 0, lo |-> 0], [hi |-> 0, lo |-> 1], [hi |-> 0, lo |-> 3],
      [hi |-> 0, lo |-> 44100], [hi |-> 16383, lo |-> 65535],
      [hi |-> 16384, lo |-> 0], [hi |-> 32767, lo |-> 65514],
      [hi |-> 32767, lo |-> 65520], [hi |-> 32767, lo |-> 65535],
      [hi |-> 32768, lo |-> 0], [hi |-> 65535, lo |-> 65535] }

\* x / k (unsigned division) for a small k
u32_div(x, k) ==
    [hi |-> x.hi \div k, lo |-> ((x.hi % k) * 65536 + x.lo) \div k]

\* what acm_pcm_total reports for a file whose header declares S samples
\* and that is decoded as ch channels: the declared count, taken as a
\* count of sample frames or of single samples
declared_totals(S, ch) == {S, u32_div(S, ch)}

SizeStart ==
    /\ \E S \in SizeCounts, forced \in ForceVals, stored \in Channels :
         \E pt \in declared_totals(S, IF forced # 0 THEN forced
                                       ELSE stored) :
            mIn = [S |-> S, forced |-> forced, stored |-> stored,
                   channels |-> (IF forced # 0 THEN forced ELSE stored),
                   pcm_total |-> pt]
    /\ mOut = NoSize

\* lines 295-302 and 312: wavsize as malloc receives it and total_bytes,
\* both as 32-bit patterns
size_region ==
    /\ mOut = NoSize /\ mIn # NoSize
    /\ mOut' = [wavsize |-> mem_size(mIn.S, mIn.forced, mIn.stored),
                total |-> u32_mul(u32_mul(mIn.pcm_total, mIn.channels),
                                  ACM_WORD)]
    /\ UNCHANGED <<mIn, sess, audioVars, errVars, hdrVars, patchVars,
                   drvVars>>

----------------------------------------------------------------------------
(* libacm_set_channels, lines 440-480 *)

\* line 443
acm_id == << 151, 40, 3, 1 >>

\* line 444: the number of header bytes read and written back
HdrBytes == 14

\* values of the argument n_chan
ChanArgs == {1, 2, 3, 258}

\* the files tried: the ACM magic or a damaged one, a sample count, the
\* 16-bit channel count at offset 8, four more header bytes and two bytes
\* of data, cut at several lengths
PatchFiles ==
    { Take(m \o << 16, 39, 0, 0 >> \o << c0, c1 >> \o << 4, 5, 6, 7 >>
             \o << 8, 9 >>, n) :
        m \in { acm_id, << 150, 40, 3, 1 >>, << 151, 40, 3, 2 >> },
        c0 \in 0..3, c1 \in 0..1, n \in {0, 3, 13, 14, 16} }

\* line 457: memcmp(hdr, acm_id, 4) is nonzero
bad_magic(hdr) == \E i \in 1..4 : hdr[i] # acm_id[i]

\* line 462
old_channels(hdr) == hdr[10] * 256 + hdr[9]

\* line 463
suspicious_lax(oldnum) == oldnum < 1

suspicious(oldnum) == oldnum # 1 /\ oldnum # 2

\* line 474: hdr[8] = n_chan
set_chan(hdr, n_chan) == [hdr EXCEPT ![9] = U8(n_chan)]

\* fwrite at position 0 of a file: its first n bytes are replaced
overwrite(file, data, n) ==
    [i \in 1..(IF n > Len(file) THEN n ELSE Len(file)) |->
        IF i <= n THEN data[i] ELSE file[i]]

PatchStart ==
    /\ ppc = "ps_open"
    /\ pfile \in PatchFiles
    /\ pfile0 = pfile
    /\ pn_chan \in ChanArgs
    /\ phdr = << >> /\ pf = "null" /\ pwrote = 0

\* lines 447-450
PsOpen ==
    /\ ppc = "ps_open"
    /\ \E ok \in BOOLEAN :
         IF ok THEN pf' = "open" /\ ppc' = "ps_read"
         ELSE pf' = "null" /\ ppc' = "ret"
    /\ UNCHANGED <<pfile, pfile0, pn_chan, phdr, pwrote, hdrVars, drvVars, procVars>>

\* lines 451-455: fread delivers up to 14 bytes of the file
PsRead ==
    /\ ppc = "ps_read"
    /\ \E res \in 0..HdrBytes :
         /\ res <= Len(pfile)
         /\ res < HdrBytes => res \in {0, Len(pfile)}
         /\ phdr' = Take(pfile, res)
         /\ ppc' = (IF res # HdrBytes THEN "ret" ELSE "ps_check")
    /\ UNCHANGED <<pfile, pfile0, pn_chan, pf, pwrote, hdrVars, drvVars, procVars>>

\* lines 457-467: the magic and the stored channel count
PsCheck ==
    /\ ppc = "ps_check"
    /\ ppc' = (IF bad_magic(phdr) THEN "ret"
               ELSE IF suspicious(old_channels(phdr)) THEN "ret"
               ELSE "ps_seek")
    /\ UNCHANGED <<pfile, pfile0, pn_chan, phdr, pf, pwrote, hdrVars,
                   drvVars, procVars>>

\* lines 469-472
PsSeek ==
    /\ ppc = "ps_seek"
    /\ \E ok \in BOOLEAN : ppc' = (IF ok THEN "ps_write" ELSE "ret")
    /\ UNCHANGED <<pfile, pfile0, pn_chan, phdr, pf, pwrote, hdrVars,
                   drvVars, procVars>>

\* lines 474-480: the patched header is written back, the file is closed
PsWrite ==
    /\ ppc = "ps_write"
    /\ phdr' = set_chan(phdr, pn_chan)
    /\ \E res \in 0..HdrBytes : pfile' = overwrite(pfile, phdr', res)
    /\ pwrote' = pwrote + 1
    /\ pf' = "closed"
    /\ ppc' = "ret"
    /\ UNCHANGED <<pfile0, pn_chan, hdrVars, drvVars, procVars>>

----------------------------------------------------------------------------
(* Spec: one call of a driver, from the start of the process *)

HdrRest ==
    /\ hpc = "off"
    /\ hIn = [pcm_total |-> u32(0), channels |-> 1, rate |-> 0, mode |-> 1]
    /\ hOut = NoOut

PatchRest ==
    /\ ppc = "off" /\ pfile = << >> /\ pfile0 = << >> /\ pn_chan = 0
    /\ phdr = << >> /\ pf = "null" /\ pwrote = 0

\* the parts of the process the specification at hand leaves alone
AudioRest ==
    /\ dev = 0 /\ old_fmt = ZeroFmt /\ fmt = ZeroFmt /\ ao = Ao0

ErrRest == ecode = 0 /\ eret = NoRet

SizeRest == mIn = NoSize /\ mOut = NoSize

ProcRest == sess = 0 /\ AudioRest /\ ErrRest /\ SizeRest

DrvSession ==
    /\ stdout_open = TRUE
    /\ pc = "idle" /\ fun = "none" /\ fn2 = "" /\ force = 0
    /\ acm = NoAcm /\ fo = "NULL" /\ ofile = << >> /\ stdout_ = << >>
    /\ buf = << >> /\ buf_st = "none" /\ bytes_done = 0 /\ total_bytes = 0
    /\ result = << >> /\ wavsize = u32(0) /\ g = G0

\* the flags are file-scope statics (lines 32-35) that start at 0; the
\* command-line front end that sets cf_raw, cf_no_output and cf_quiet is
\* not in acmtool.c, so each flag starts at either value
DrvStart ==
    /\ cf_raw \in {0, 1} /\ cf_no_output \in {0, 1} /\ cf_quiet \in {0, 1}
    /\ DrvSession

DrvRest ==
    /\ cf_raw = 0 /\ cf_no_output = 0 /\ cf_quiet = 0
    /\ DrvSession

Init == DrvStart /\ HdrRest /\ PatchRest /\ ProcRest

Next ==
    \/ Call
    \/ DfOpen \/ DfSink \/ DfShow \/ DfHdr \/ DfAlloc
    \/ DfStream \/ DfMemset \/ DfPad \/ DfClose
    \/ TmOpen \/ TmCount \/ TmAlloc \/ TmHdr
    \/ TmStream \/ TmMemset \/ TmPad \/ TmClose
    \/ ShowInfo

Spec == Init /\ [][Next]_vars

(* SpecHdr *)

HdrInit == HdrStart /\ DrvRest /\ PatchRest /\ ProcRest

HdrNext == write_wav_header \/ HdrOtherMode

SpecHdr == HdrInit /\ [][HdrNext]_vars

(* SpecPatch *)

PatchInit == PatchStart /\ DrvRest /\ HdrRest /\ ProcRest

PatchNext == PsOpen \/ PsRead \/ PsCheck \/ PsSeek \/ PsWrite

SpecPatch == PatchInit /\ [][PatchNext]_vars

(* SpecSess: libacm_decode_file called again and again in one process in
   which quiet was not asked for *)

SessInit ==
    /\ cf_raw \in {0, 1} /\ cf_no_output \in {0, 1} /\ cf_quiet = 0
    /\ DrvSession /\ HdrRest /\ PatchRest /\ ProcRest

SessNext ==
    \/ SessCall
    \/ DfOpen \/ DfSink \/ DfShow \/ DfHdr \/ DfAlloc
    \/ DfStream \/ DfMemset \/ DfPad \/ DfClose

SpecSess == SessInit /\ [][SessNext]_vars

(* SpecSize: the size of the region, for one file *)

SizeInit ==
    /\ SizeStart
    /\ sess = 0 /\ AudioRest /\ ErrRest
    /\ DrvRest /\ HdrRest /\ PatchRest

SizeNext == size_region

SpecSize == SizeInit /\ [][SizeNext]_vars

(* SpecErr: libacm_strerror applied to one error code *)

ErrInit ==
    /\ ecode \in ErrCodes /\ eret = NoRet
    /\ sess = 0 /\ AudioRest /\ SizeRest
    /\ DrvRest /\ HdrRest /\ PatchRest

ErrNext == libacm_strerror

SpecErr == ErrInit /\ [][ErrNext]_vars

(* SpecPlay: play_file called again and again, close_audio in between *)

PlayInit ==
    /\ cf_raw = 0 /\ cf_no_output = 0 /\ cf_quiet \in {0, 1}
    /\ DrvSession /\ HdrRest /\ PatchRest /\ ProcRest

PlayNext ==
    \/ PlayCall \/ close_audio
    \/ PfOpen \/ PfShow \/ PfDev \/ PfAlloc
    \/ PfStream \/ PfMemset \/ PfPad \/ PfClose

SpecPlay == PlayInit /\ [][PlayNext]_vars

----------------------------------------------------------------------------
(* Properties *)

InDecodeFile == fun = "decode_file"
InToMem      == fun = "decode_file_to_mem"

\* the PCM bytes a stream or region holds: decoded ones and padding
PcmCount(s) == Count(s, "pcm") + Count(s, "pad")

\* the header the session's stream calls for
SessionHdr == Items("hdr", wav_hdr(u32(acm.pcm_total), acm.channels, acm.rate))

\* s is a prefix of t
IsPrefix(s, t) == Len(s) <= Len(t) /\ Take(t, Len(s)) = s

\* the items of s that follow its first n
Drop(s, n) == SubSeq(s, n + 1, Len(s))

(* C1: in libacm_decode_file with output enabled and every write to the
   sink accepted in full, the streaming loop and the padding loop together
   write exactly total_bytes PCM bytes to the sink, whatever the decoder
   delivers. *)
C1_ExactTotal ==
    (InDecodeFile /\ cf_no_output = 0 /\ g.ret = "normal" /\ ~g.ioFailed)
        => PcmCount(Sink) = total_bytes

(* C2: in libacm_decode_file every byte the padding loop writes is zero,
   no padding write is larger than the chunk buffer, and when no padding
   write fails the padding loop writes exactly the shortfall
   total_bytes - bytes_done left by the streaming loop (nothing when there
   is none); when the first pull signals end-of-stream, the whole payload
   of total_bytes bytes is zeros. *)
C2_Padding ==
    (InDecodeFile /\ cf_no_output = 0) =>
        /\ \A i \in 1..Len(Sink) : Sink[i].src = "pad" => Sink[i].val = 0
        /\ g.padMax <= buflen
        /\ g.padWrites * buflen >= Count(Sink, "pad")
        /\ (g.ret = "normal" /\ ~g.padFailed) =>
              /\ Count(Sink, "pad") =
                   (IF g.streamEnd < total_bytes
                    THEN total_bytes - g.streamEnd ELSE 0)
              /\ (g.pulls = 1 /\ g.eos) =>
                    LET payload == Drop(Payload(Sink), Count(Sink, "hdr"))
                    IN  /\ Len(payload) = total_bytes
                        /\ \A i \in 1..Len(payload) : payload[i].val = 0

C2_Witness ==
    /\ InDecodeFile /\ cf_no_output = 0 /\ g.ret = "normal" /\ ~g.padFailed
    /\ Count(Sink, "pcm") > 0 /\ g.padWrites = 2
    /\ \E i \in 1..Len(Sink) : Sink[i].src = "pcm" /\ Sink[i].val # 0

(* C3: in libacm_decode_file_to_mem the header stays in bytes 0..43 of the
   region: no chunk is copied over it, and at return the region holds the
   header followed by total_bytes bytes of PCM. *)
C3_HeaderKept ==
    (InToMem /\ pc \in {"tm_stream", "tm_memset", "tm_pad", "tm_close", "idle"}
             /\ g.hdrWrites = 1) =>
        /\ Take(result, 44) = SessionHdr
        /\ g.ret = "normal" => PcmCount(Drop(result, 44)) = total_bytes

\* little-endian fields of a byte sequence, and 32-bit sums by halves
LE16(B, off) == B[off + 1] + 256 * B[off + 2]

LE32(B, off) == [hi |-> LE16(B, off + 2), lo |-> LE16(B, off)]

Plus32(a, b) ==
    LET l == a.lo + b.lo
    IN  [hi |-> (a.hi + b.hi + l \div 65536) % 65536, lo |-> l % 65536]

RECURSIVE Times32(_, _)
Times32(a, k) ==
    IF k = 0 THEN [hi |-> 0, lo |-> 0] ELSE Plus32(a, Times32(a, k - 1))

Val32(a) == a.hi * 65536 + a.lo

(* C4: write_wav_header builds exactly 44 bytes whose fields, read as
   little-endian numbers, satisfy: RIFF size = 4 + 8 + 16 + 8 + data size,
   format code = 1, bits per sample = 16, block align = channels x 2,
   byte rate = sample rate x block align, data size = pcm_total x
   channels x 2, all in 32-bit unsigned arithmetic; the header for
   (channels 2, rate 44100, 176400 PCM bytes) has RIFF size 176436, byte
   rate 176400 and block align 4. *)
C4_HeaderFields ==
    (hpc = "ret" /\ hOut.ret = 0) =>
        LET B     == hOut.dest
            data  == LE32(B, 40)
            align == LE16(B, 32)
        IN  /\ Len(B) = 44
            /\ \A i \in 1..Len(B) : B[i] \in 0..255
            /\ data = Times32(hIn.pcm_total, hIn.channels * 2)
            /\ LE32(B, 4) = Plus32(data, [hi |-> 0, lo |-> 4 + 8 + 16 + 8])
            /\ LE16(B, 20) = 1
            /\ LE16(B, 22) = hIn.channels
            /\ LE32(B, 24) = [hi |-> 0, lo |-> hIn.rate]
            /\ align = hIn.channels * 2
            /\ LE32(B, 28) = Times32([hi |-> 0, lo |-> hIn.rate], align)
            /\ LE16(B, 34) = 16
            /\ (hIn.channels = 2 /\ hIn.rate = 44100
                  /\ hIn.pcm_total = [hi |-> 0, lo |-> 44100]) =>
                  /\ Val32(data) = 176400
                  /\ Val32(LE32(B, 4)) = 176436
                  /\ Val32(LE32(B, 28)) = 176400
                  /\ align = 4

C4_Witness ==
    /\ hpc = "ret" /\ hOut.ret = 0 /\ Len(hOut.dest) = 44
    /\ hIn.channels = 2 /\ hIn.rate = 44100
    /\ hIn.pcm_total = [hi |-> 0, lo |-> 44100]
    /\ Val32(LE32(hOut.dest, 4)) = 176436

(* C5: in libacm_decode_file, when a WAV header is wanted its 44 bytes are
   written once, before the first pull of the decoder and before any PCM
   byte; in raw mode no header byte is written and the sink receives PCM
   bytes only. *)
C5_HeaderFirst ==
    InDecodeFile =>
        /\ g.hdrWrites <= 1
        /\ (header_wanted /\ (g.pulls > 0 \/ PcmCount(Sink) > 0
                                \/ g.ret = "normal")) =>
              /\ g.hdrWrites = 1
              /\ Count(Sink, "hdr") = 44
              /\ Take(Sink, 44) = SessionHdr
        /\ cf_raw # 0 =>
              /\ g.hdrWrites = 0
              /\ \A i \in 1..Len(Sink) : Sink[i].src \in {"pcm", "pad"}

C5_Witness ==
    /\ InDecodeFile /\ header_wanted /\ g.ret = "normal"
    /\ Count(Sink, "hdr") = 44 /\ Count(Sink, "pcm") > 0

\* what a step of a session in which the decoder has reported an error
\* must satisfy
C6_ErrorStep ==
    (InDecodeFile /\ g'.decErr) =>
        /\ ~g.decErr => pc' = "df_memset"
        /\ g.decErr =>
              /\ g'.pulls = g.pulls
              /\ IsPrefix(Sink, Sink')
              /\ Count(Sink', "pcm") = Count(Sink, "pcm")
        /\ (g'.ret = "normal" /\ ~g'.ioFailed /\ cf_no_output = 0) =>
              /\ PcmCount(Sink') = total_bytes'
              /\ Count(Sink', "pad") = total_bytes' - g'.streamEnd
              /\ \A i \in 1..Len(Sink') :
                    Sink'[i].src = "pad" => Sink'[i].val = 0
        /\ pc' = "idle" => (acm'.st = "closed" /\ g'.acmCloses = 1)

(* C6: once a pull of the decoder in libacm_decode_file has returned a
   negative code, the streaming loop is left at once and the decoder is
   not pulled again; what the sink holds stays in it, the padding loop
   tops the PCM up with zeros to total_bytes (when the sink accepts the
   padding), and the decoder handle is closed at return. *)
C6_ErrorEndsStreaming == [][C6_ErrorStep]_vars

C6_Witness ==
    /\ InDecodeFile /\ g.decErr /\ g.ret = "normal" /\ ~g.ioFailed
    /\ cf_no_output = 0 /\ Count(Sink, "pcm") > 0 /\ Count(Sink, "pad") > 0
    /\ acm.st = "closed"

(* C7: in libacm_decode_file, once a write to the sink has accepted fewer
   bytes than requested (in the streaming or the padding loop), no further
   write to the sink is attempted and the decoder is not pulled again. *)
C7_WriteFailureFatal ==
    [][(InDecodeFile /\ g.ioFailed) =>
          (g'.writes = g.writes /\ g'.pulls = g.pulls)]_vars

(* C8: in every session in which acm_open_file succeeded, at return the
   decoder handle has been closed exactly once, an output file the
   session opened has been closed, and the chunk buffer, if allocated,
   has been freed. *)
C8_ClosingAlwaysRuns ==
    (pc = "idle" /\ acm.st # "none") =>
        /\ g.acmCloses = 1 /\ acm.st = "closed"
        /\ g.foCloses = g.foOpens
        /\ buf_st # "alloc"

(* C9: a session whose decoder open fails or whose header emission fails
   ends before streaming: no pull of the decoder, no PCM byte, no padding
   byte; after a failed open of the decoder, no output file is opened, no
   region and no buffer is allocated, and nothing is written. *)
C9_TerminalBeforeStreaming ==
    (InDecodeFile \/ InToMem) =>
        /\ g.openFailed =>
              /\ pc = "idle" /\ g.pulls = 0 /\ g.writes = 0
              /\ g.foOpens = 0 /\ fo = "NULL"
              /\ ofile = << >> /\ stdout_ = << >>
              /\ result = << >> /\ buf_st = "none"
        /\ g.hdrFailed =>
              /\ pc = "idle" /\ g.pulls = 0 /\ g.writes = 1
              /\ PcmCount(Sink) = 0 /\ PcmCount(result) = 0

C9_Witness ==
    /\ InDecodeFile /\ g.hdrFailed /\ pc = "idle"
    /\ Count(Sink, "hdr") = 43 /\ acm.st = "closed"

(* C10: libacm_set_channels writes to the file only if its first 4 bytes
   are the magic 0x97 0x28 0x03 0x01 and the little-endian 16-bit value at
   offset 8 is 1 or 2 (the file having at least 14 bytes); otherwise the
   file is left as it was.  When it writes, the file keeps its length and
   only the byte at offset 8 can change. *)
C10_PatchFrame ==
    LET patchable ==
          /\ Len(pfile0) >= 14
          /\ pfile0[1] = 151 /\ pfile0[2] = 40
          /\ pfile0[3] = 3 /\ pfile0[4] = 1
          /\ pfile0[9] + 256 * pfile0[10] \in {1, 2}
    IN  /\ pwrote > 0 => patchable
        /\ ~patchable => pfile = pfile0
        /\ Len(pfile) = Len(pfile0)
        /\ \A i \in 1..Len(pfile) : i # 9 => pfile[i] = pfile0[i]

C10_Witness ==
    /\ ppc = "ret" /\ pwrote = 1
    /\ pfile # pfile0 /\ pfile[9] = 2 /\ pfile0[9] = 1

(* C11: when libacm_decode_file writes to standard output (fn2 is "-"),
   the only bytes written to stdout during the session are the 44 bytes
   of the WAV header (none in raw mode) followed by PCM and padding bytes;
   no info or log text is written to stdout. *)
C11_StdoutPayloadOnly ==
    (InDecodeFile /\ fo = "stdout") =>
        /\ \A i \in 1..Len(stdout_) : stdout_[i].src \in {"hdr", "pcm", "pad"}
        /\ \A i \in 1..Len(stdout_) :
              (stdout_[i].src = "hdr") = (header_wanted /\ i <= 44)

\* the devices: at most one is open, none is open that dev does not point
\* to, and old_fmt is the format the open one was opened with
C12_Devices ==
    /\ Cardinality(ao.live) <= 1
    /\ ao.live \subseteq {dev}
    /\ dev # 0 => (dev \in ao.live /\ old_fmt = ao.fmtOf[dev])

\* what a call of open_audio(fmt) or close_audio must satisfy
C12_Step ==
    /\ C12_Devices'
    /\ pc = "pf_dev" =>
          IF dev # 0 /\ fmt = old_fmt
          THEN /\ dev' = dev /\ old_fmt' = old_fmt
               /\ ao'.log = << >> /\ ao'.live = ao.live
               /\ pc' = "pf_alloc"
          ELSE LET log == ao'.log
               IN  /\ dev # 0 <=>
                        (Len(log) >= 1 /\ log[1] = << "ao_close", dev >>)
                   /\ \A i \in 1..Len(log) :
                        /\ log[i][1] = "ao_close" => i = 1
                        /\ log[i][1] = "ao_open_live" => i = Len(log)
                   /\ pc' = "pf_alloc" =>
                        /\ Len(log) >= 1
                        /\ log[Len(log)] = << "ao_open_live", dev' >>
                        /\ dev' # 0 /\ old_fmt' = fmt
    /\ (pc = "idle" /\ pc' = "idle") =>
          /\ dev' = 0 /\ ao'.live = {}
          /\ ao'.log = (IF dev # 0 THEN << << "ao_close", dev >> >>
                        ELSE << >>)

(* C12: in any sequence of open_audio(fmt) and close_audio calls the open
   device is reused, with no ao_open_live and no ao_close, when fmt equals
   the format of the previous open; otherwise the old device, if any, is
   closed before a new one is opened.  At most one device is open at any
   time, no opened device is dropped without being closed, and while a
   device is open old_fmt is the format it was opened with. *)
C12_DeviceReuse == [][C12_Step]_vars

C12_Witness ==
    /\ fun = "play_file" /\ sess = 2 /\ pc = "pf_alloc"
    /\ Len(ao.log) = 2 /\ ao.log[1][1] = "ao_close"
    /\ dev # 0 /\ old_fmt = fmt /\ ao.live = {dev}

(* C15: in libacm_decode_file, libacm_decode_file_to_mem and play_file
   alike, bytes_done is advanced for a chunk only after the sink accepted
   the chunk in full: bytes_done never exceeds the number of PCM bytes the
   sink has accepted in the session. *)
C15_DoneAfterAccept ==
    (fun \in {"decode_file", "decode_file_to_mem", "play_file"}) =>
        /\ bytes_done <= g.taken
        /\ fun = "play_file" => bytes_done <= Len(ao.out)

(* C13: for the same channel count, sample rate and sample total,
   write_wav_header delivers the same 44 bytes to its destination in mode
   2 (in place) as in mode 1 (stream) when the stream takes them all; in
   mode 1 it reports a failure exactly when the stream accepted fewer
   than 44 bytes. *)
C13_ModesAgree ==
    hpc = "ret" =>
        /\ hOut.mode = 1 =>
              /\ (hOut.ret < 0) = (hOut.accepted < 44)
              /\ Len(hOut.dest) = hOut.accepted
        /\ hOut.mode = 2 => Len(hOut.dest) = 44
        /\ hOut.prev # << >> =>
              LET first == hOut.prev[1]
              IN  /\ first.mode # hOut.mode
                  /\ (first.accepted = 44 /\ hOut.accepted = 44) =>
                        (hOut.dest = first.dest /\ Len(hOut.dest) = 44)

C13_Witness ==
    /\ hpc = "ret" /\ hOut.prev # << >>
    /\ hOut.mode = 2 /\ hOut.prev[1].mode = 1
    /\ hOut.prev[1].accepted = 44 /\ hOut.prev[1].ret = 0
    /\ hOut.dest = hOut.prev[1].dest /\ Len(hOut.dest) = 44
    /\ hIn.pcm_total = [hi |-> 65535, lo |-> 65535]

(* C14: libacm_strerror(err) returns entry -err of the 9-entry table when
   0 <= -err <= 8 and "Unknown error" for every other code (all positive
   codes, all codes below -8); it never reads outside the table. *)
C14_ErrorText ==
    eret # NoRet =>
        /\ Len(errlist) = 9
        /\ eret.idx \in -1..8
        /\ IF ecode <= 0 /\ ecode >= -8
           THEN eret.idx = 0 - ecode /\ eret.str = errlist[1 - ecode]
           ELSE eret.idx = -1 /\ eret.str = "Unknown error"

C14_Witness ==
    /\ ecode = -8 /\ eret.idx = 8 /\ eret.str = "Stream not seekable"

\* what a step of the two loops of libacm_decode_file must satisfy
C16_Step ==
    InDecodeFile =>
        /\ pc = "df_stream" =>
              /\ pc' # "df_stream" \/ bytes_done' > bytes_done
              /\ bytes_done >= total_bytes =>
                    (pc' = "df_memset" /\ g'.pulls = g.pulls)
        /\ pc = "df_pad" =>
              /\ \/ pc' = "df_close"
                 \/ /\ pc' = "df_pad"
                    /\ \E bs \in 1..buflen : bytes_done' = bytes_done + bs
              /\ bytes_done >= total_bytes => pc' = "df_close"
        /\ (pc' = "df_close" /\ ~g'.ioFailed) => bytes_done' = total_bytes'

(* C16: every libacm_decode_file session reaches Closing: an iteration of
   the streaming loop leaves the loop or strictly increases bytes_done,
   and the loop stops once bytes_done >= total_bytes; an iteration of the
   padding loop leaves the loop or increases bytes_done by a chunk size
   bs with 1 <= bs <= buflen (16384 in the source); padding ends with
   bytes_done = total_bytes when no write fails. *)
C16_LoopsTerminate == [][C16_Step]_vars

(* C17: the suppression of the info line forced by the standard-output
   sink is limited to that session: in any sequence of libacm_decode_file
   sessions in which quiet was not asked for, a session whose sink is a
   named file prints its info line through show_header, also when an
   earlier session of the process wrote to "-". *)
C17_QuietOneSession ==
    (InDecodeFile /\ fo = "file" /\ pc = "df_hdr") =>
        /\ cf_quiet = 0
        /\ Count(stdout_, "txt") = 1

\* numbers of up to 48 bits as three 16-bit limbs, lowest first
Wide(a) == << a.lo, a.hi, 0 >>

WideTimes(w, k) ==
    LET p1 == w[1] * k
        p2 == w[2] * k + p1 \div 65536
        p3 == w[3] * k + p2 \div 65536
    IN  << p1 % 65536, p2 % 65536, p3 >>

WidePlus(w, k) ==
    LET p1 == w[1] + k
        p2 == w[2] + p1 \div 65536
        p3 == w[3] + p2 \div 65536
    IN  << p1 % 65536, p2 % 65536, p3 >>

WideLeq(a, b) ==
    \/ a[3] < b[3]
    \/ a[3] = b[3] /\ a[2] < b[2]
    \/ a[3] = b[3] /\ a[2] = b[2] /\ a[1] <= b[1]

(* C18: the region libacm_decode_file_to_mem allocates, of (S << c) + 44
   bytes in 32-bit unsigned arithmetic (S the sample count at offset 4 of
   the file, c the forced channel count if nonzero, else the stored one),
   is large enough: for every S and every c in {1, 2} its size is at
   least 44 + total_bytes, with total_bytes = acm_pcm_total x
   acm_channels x 2. *)
C18_RegionLargeEnough ==
    mOut # NoSize =>
        WideLeq(WidePlus(WideTimes(Wide(mIn.pcm_total),
                                   mIn.channels * 2), 44),
                Wide(mOut.wavsize))

(* C19: in no-output mode libacm_decode_file opens no output file and
   makes no write and no close on any sink, every sink step counts as a
   success, and the driver still pulls the decoder and pads, so that
   bytes_done has reached total_bytes when the decoder is closed. *)
C19_NullSink ==
    (InDecodeFile /\ cf_no_output # 0) =>
        /\ g.foOpens = 0 /\ fo = "NULL"
        /\ g.writes = 0 /\ g.hdrWrites = 0
        /\ ofile = << >> /\ Payload(stdout_) = << >>
        /\ g.foCloses = 0 /\ stdout_open
        /\ ~g.ioFailed /\ ~g.hdrFailed /\ g.taken = bytes_done
        /\ g.ret \in {"none", "open_fail", "normal"}
        /\ acm.st = "closed" =>
              /\ g.ret = "normal" /\ bytes_done >= total_bytes
              /\ g.streamEnd < total_bytes => bytes_done = total_bytes

C19_Witness ==
    /\ InDecodeFile /\ cf_no_output # 0 /\ g.ret = "normal"
    /\ acm.st = "closed" /\ g.pulls = 2 /\ g.eos
    /\ g.streamEnd = 2 /\ total_bytes = 8 /\ bytes_done = 8

(* C20: libacm_set_channels releases the file handle it opens on every
   return path: whenever fopen succeeded the file has been closed when the
   function returns, on the rejection paths (short header read, wrong
   magic, stored channel count not 1 or 2, seek failure) and on the
   write-failure path too. *)
C20_HandleReleased ==
    (ppc = "ret" /\ pf # "null") => pf = "closed"

====
